---- MODULE Spec2Model ----
(***************************************************************************)
(* AsyncRecordBatchReader (src/prototype/prototype_py.py): a decoder that  *)
(* pushes record batches through a synchronous callback, bridged to an     *)
(* asyncio consumer through an asyncio.Queue.                              *)
(*                                                                         *)
(* Everything runs on one asyncio event loop.  The loop owns a FIFO of     *)
(* ready handles (`ready`); a handle is a deferred queue put scheduled by  *)
(* call_soon_threadsafe, or the wake-up of the feeder task (_read_stream)  *)
(* or of the consumer task (the coroutine that iterates the reader).       *)
(* `cur` names who holds the loop thread: the loop itself (between         *)
(* handles), the feeder task or the consumer task.  A task runs until it   *)
(* suspends or ends; nothing else runs meanwhile.                          *)
(***************************************************************************)
EXTENDS Naturals, Sequences, FiniteSets, TLC

\* ---------------------------------------------------------------- bounds
MaxUnits  == 3      \* handles the decoder converts successfully
MaxErrors == 2      \* errors raised anywhere (callback, feed, read)
MaxChunks == 3      \* non-empty chunks the byte source delivers
MaxAwaits == 2      \* awaits of the schema accessor
MaxIters  == 2      \* iterations started on one reader

\* ---------------------------------------------------------------- values
NoItem  == [kind |-> "none", id |-> 0]
NoError == [kind |-> "none", id |-> 0]
Pending == [kind |-> "pending", id |-> 0]

Batch(n)         == [kind |-> "batch", id |-> n]
DecodeError(n)   == [kind |-> "DecodeError", id |-> n]
TransferError(n) == [kind |-> "TransferError", id |-> n]
TypeError        == [kind |-> "TypeError", id |-> 0]

\* batch.schema: the schema carried by a batch (distinct per batch here, so
\* that which batch a published schema came from is observable)
schemaOf(batch) == [kind |-> "schema", id |-> batch.id]

\* isinstance(batch, Exception)
IsException(item) == item.kind \in {"DecodeError", "TransferError"}

\* loop handles
PutHandle(item) == [h |-> "put", item |-> item]
StepF           == [h |-> "stepF", item |-> NoItem]
StepC           == [h |-> "stepC", item |-> NoItem]

IsPrefix(s, t) == Len(s) <= Len(t) /\ \A i \in 1..Len(s) : s[i] = t[i]

VARIABLES
    _queue,         \* asyncio.Queue contents, head first
    _error,         \* reader._error
    _schema,        \* reader._schema future: Pending or its result
    _done,          \* reader._done
    ready,          \* the event loop's FIFO of ready handles
    cur,            \* "loop", "F" (feeder task running), "C" (consumer running)
    fpc,            \* position of _read_stream
    exc,            \* exception propagating out of _read_stream's try body
    chunks,         \* non-empty chunks read so far
    cpc,            \* position of the consumer
    yielded,        \* batches the iteration yielded, in order
    surfaced,       \* the exception the iteration raised, if any
    schemaResults,  \* outcome of each `await reader.schema`, in order
    produced,       \* batches the callback converted, in order
    errors,         \* exceptions raised so far, in order of occurrence
    beforeFail,     \* `produced` at the moment the first exception was raised
    iters,          \* iterations of the reader started so far
    abandonChunks   \* `chunks` at the moment the consumer abandoned iteration

vars == <<_queue, _error, _schema, _done, ready, cur, fpc, exc, chunks, cpc,
          yielded, surfaced, schemaResults, produced, errors, beforeFail,
          iters, abandonChunks>>

readerVars   == <<_queue, _error, _schema, _done>>
feederVars   == <<fpc, exc, chunks>>
consumerVars == <<cpc, yielded, surfaced, schemaResults>>
ghostVars    == <<produced, errors, beforeFail>>
iterVars     == <<iters, abandonChunks>>

\* ------------------------------------------------- library primitives
\* a queue that puts at the head
put_nowait_lifo(q, item) == <<item>> \o q

\* asyncio.Queue.put_nowait: append at the tail
put_nowait(q, item) == Append(q, item)

\* loop.call_soon_threadsafe / call_soon: append the handle to the ready FIFO
call_soon_threadsafe(rdy, handle) == Append(rdy, handle)

\* a callback that never publishes
publish_schema_never(fut, batch) == fut

\* a callback that publishes on every invocation
publish_schema_always(fut, batch) == schemaOf(batch)

\* `if not self._schema.done(): self._schema.set_result(batch.schema)`
publish_schema(fut, batch) == IF fut = Pending THEN schemaOf(batch) ELSE fut

\* `while not self._done or not self._queue.empty()`
loop_condition(d, q) == (~d) \/ (q # <<>>)

\* an iterator without the `finally` check
finally_raises_inflight(err, inflight) == inflight

\* the `finally` clause of __aiter__: `if self._error: raise self._error`,
\* otherwise the exception in flight (if any) keeps propagating
finally_raises(err, inflight) == IF err # NoError THEN err ELSE inflight

\* `await asyncio.wait_for(self.schema)`: wait_for is called with one
\* argument, its `timeout` parameter has no default, so the call raises
\* TypeError before anything is awaited, whatever the future holds
schema_accessor(fut) == TypeError

\* ---------------------------------------------------------------- Init
\* The caller's task is inside fetch_stream: the reader is built and the
\* callback is registered on the decoder wrapper (lines 139-142).
Init ==
    /\ _queue = <<>>
    /\ _error = NoError
    /\ _schema = Pending
    /\ _done = FALSE
    /\ ready = <<>>
    /\ cur = "C"
    /\ fpc = "start"
    /\ exc = NoError
    /\ chunks = 0
    /\ cpc = "fetch"
    /\ yielded = <<>>
    /\ surfaced = NoError
    /\ schemaResults = <<>>
    /\ produced = <<>>
    /\ errors = <<>>
    /\ beforeFail = <<>>
    /\ iters = 0
    /\ abandonChunks = 0

\* the next exception object raised, and the bookkeeping of its occurrence
Raise(e) ==
    /\ errors' = Append(errors, e)
    /\ beforeFail' = IF errors = <<>> THEN produced ELSE beforeFail

\* ------------------------------------------------------- fetch_stream
\* a fetch_stream that runs the first step of the feeder before it returns
fetch_stream_eager ==
    /\ cur = "C" /\ cpc = "fetch"
    /\ fpc' = "conn_wait"
    /\ cpc' = "main"
    /\ UNCHANGED <<readerVars, ready, cur, exc, chunks, yielded, surfaced,
                   schemaResults, ghostVars, iterVars>>

\* asyncio.create_task(_read_stream(...)) queues the first step of the feeder
\* task on the loop; fetch_stream returns the reader without awaiting
fetch_stream ==
    /\ cur = "C" /\ cpc = "fetch"
    /\ ready' = call_soon_threadsafe(ready, StepF)
    /\ cpc' = "main"
    /\ UNCHANGED <<readerVars, cur, feederVars, yielded, surfaced,
                   schemaResults, ghostVars, iterVars>>

\* ------------------------------------------------------- the event loop
\* the loop runs a deferred `self._queue.put_nowait(item)`; put_nowait
\* wakes the getter of a consumer suspended in get()
RunPut ==
    /\ cur = "loop" /\ ready # <<>> /\ Head(ready).h = "put"
    /\ _queue' = put_nowait(_queue, Head(ready).item)
    /\ IF cpc = "getting"
          THEN /\ cpc' = "get_ret"
               /\ ready' = call_soon_threadsafe(Tail(ready), StepC)
          ELSE /\ cpc' = cpc
               /\ ready' = Tail(ready)
    /\ UNCHANGED <<iterVars, _error, _schema, _done, cur, feederVars, yielded, surfaced,
                   schemaResults, ghostVars>>

\* the loop resumes the feeder task
RunStepF ==
    /\ cur = "loop" /\ ready # <<>> /\ Head(ready) = StepF
    /\ ready' = Tail(ready)
    /\ cur' = "F"
    /\ UNCHANGED <<iterVars, readerVars, feederVars, consumerVars, ghostVars>>

\* the loop resumes the consumer task
RunStepC ==
    /\ cur = "loop" /\ ready # <<>> /\ Head(ready) = StepC
    /\ ready' = Tail(ready)
    /\ cur' = "C"
    /\ UNCHANGED <<iterVars, readerVars, feederVars, consumerVars, ghostVars>>

\* between two handles the loop polls the selector: the network is ready
\* for a feeder suspended on it
IOReady ==
    /\ cur = "loop"
    /\ fpc \in {"conn_wait", "read_wait", "exit_wait"}
    /\ fpc' = CASE fpc = "conn_wait" -> "conn_ret"
                [] fpc = "read_wait" -> "read_ret"
                [] fpc = "exit_wait" -> "exit_ret"
    /\ ready' = call_soon_threadsafe(ready, StepF)
    /\ UNCHANGED <<iterVars, readerVars, cur, exc, chunks, consumerVars, ghostVars>>

\* between two handles the loop finds the timer of a sleeping consumer due
Timer ==
    /\ cur = "loop"
    /\ cpc \in {"main_sleep", "body_sleep"}
    /\ cpc' = IF cpc = "main_sleep" THEN "main_ret" ELSE "body_ret"
    /\ ready' = call_soon_threadsafe(ready, StepC)
    /\ UNCHANGED <<iterVars, readerVars, cur, feederVars, yielded, surfaced,
                   schemaResults, ghostVars>>

\* ---------------------------------------------------- _handle_batch
\* the decoder hands over a handle that converts: publish the schema if the
\* future is not done, then schedule the put of the batch
handle_batch_ok ==
    LET batch == Batch(Len(produced) + 1) IN
    /\ _schema' = publish_schema(_schema, batch)
    /\ ready' = call_soon_threadsafe(ready, PutHandle(batch))
    /\ produced' = Append(produced, batch)
    /\ UNCHANGED <<_queue, _error, _done, errors, beforeFail>>

\* a callback that stores the exception but schedules no marker
handle_batch_raises_silent ==
    LET e == DecodeError(Len(errors) + 1) IN
    /\ _error' = e
    /\ ready' = ready
    /\ Raise(e)
    /\ UNCHANGED <<_queue, _schema, _done, produced>>

\* the conversion raises: the exception is caught, stored in _error and its
\* put is scheduled; the callback returns normally
handle_batch_raises ==
    LET e == DecodeError(Len(errors) + 1) IN
    /\ _error' = e
    /\ ready' = call_soon_threadsafe(ready, PutHandle(e))
    /\ Raise(e)
    /\ UNCHANGED <<_queue, _schema, _done, produced>>

\* ------------------------------------------------------- _read_stream
\* first step of the task: open the session and send the request, which
\* suspends on the network
F_Connect ==
    /\ cur = "F" /\ fpc = "start"
    /\ fpc' = "conn_wait"
    /\ cur' = "loop"
    /\ UNCHANGED <<iterVars, readerVars, ready, exc, chunks, consumerVars, ghostVars>>

\* the response arrives
F_ConnectOK ==
    /\ cur = "F" /\ fpc = "conn_ret"
    /\ fpc' = "read"
    /\ UNCHANGED <<iterVars, readerVars, ready, cur, exc, chunks, consumerVars, ghostVars>>

\* the request fails
F_ConnectFail ==
    /\ cur = "F" /\ fpc = "conn_ret"
    /\ Len(errors) < MaxErrors
    /\ exc' = TransferError(Len(errors) + 1)
    /\ Raise(exc')
    /\ fpc' = "exit"
    /\ UNCHANGED <<iterVars, readerVars, ready, cur, chunks, consumerVars, produced>>

\* `await response.content.read(buf_size)` finds nothing buffered and suspends
F_ReadSuspend ==
    /\ cur = "F" /\ fpc = "read"
    /\ fpc' = "read_wait"
    /\ cur' = "loop"
    /\ UNCHANGED <<iterVars, readerVars, ready, exc, chunks, consumerVars, ghostVars>>

\* a feeder that marks the reader done as soon as a chunk has been read
F_ReadChunk_marks ==
    /\ cur = "F" /\ fpc \in {"read", "read_ret"}
    /\ chunks < MaxChunks
    /\ chunks' = chunks + 1
    /\ fpc' = "feed"
    /\ _done' = TRUE
    /\ UNCHANGED <<iterVars, _queue, _error, _schema, ready, cur, exc,
                   consumerVars, ghostVars>>

\* read returns a non-empty chunk; consume_bytes is entered
F_ReadChunk ==
    /\ cur = "F" /\ fpc \in {"read", "read_ret"}
    /\ chunks < MaxChunks
    /\ chunks' = chunks + 1
    /\ fpc' = "feed"
    /\ UNCHANGED <<iterVars, readerVars, ready, cur, exc, consumerVars, ghostVars>>

\* read returns b"" (EOF): break out of the loop
F_ReadEOF ==
    /\ cur = "F" /\ fpc \in {"read", "read_ret"}
    /\ fpc' = "exit"
    /\ UNCHANGED <<iterVars, readerVars, ready, cur, exc, chunks, consumerVars, ghostVars>>

\* read raises a transfer error
F_ReadRaise ==
    /\ cur = "F" /\ fpc \in {"read", "read_ret"}
    /\ Len(errors) < MaxErrors
    /\ exc' = TransferError(Len(errors) + 1)
    /\ Raise(exc')
    /\ fpc' = "exit"
    /\ UNCHANGED <<iterVars, readerVars, ready, cur, chunks, consumerVars, produced>>

\* inside consume_bytes the decoder calls back with a handle that converts
F_Callback ==
    /\ cur = "F" /\ fpc = "feed"
    /\ Len(produced) < MaxUnits
    /\ handle_batch_ok
    /\ UNCHANGED <<iterVars, cur, feederVars, consumerVars>>

\* inside consume_bytes the decoder calls back with a handle that does not
F_CallbackBad ==
    /\ cur = "F" /\ fpc = "feed"
    /\ Len(errors) < MaxErrors
    /\ handle_batch_raises
    /\ UNCHANGED <<iterVars, cur, feederVars, consumerVars>>

\* consume_bytes returns; back to the top of `while True`
F_FeedReturn ==
    /\ cur = "F" /\ fpc = "feed"
    /\ fpc' = "read"
    /\ UNCHANGED <<iterVars, readerVars, ready, cur, exc, chunks, consumerVars, ghostVars>>

\* consume_bytes itself raises (the decoder rejects the bytes)
F_FeedRaise ==
    /\ cur = "F" /\ fpc = "feed"
    /\ Len(errors) < MaxErrors
    /\ exc' = DecodeError(Len(errors) + 1)
    /\ Raise(exc')
    /\ fpc' = "exit"
    /\ UNCHANGED <<iterVars, readerVars, ready, cur, chunks, consumerVars, produced>>

\* leaving the two `async with` blocks may suspend while the connection closes
F_ExitSuspend ==
    /\ cur = "F" /\ fpc = "exit"
    /\ fpc' = "exit_wait"
    /\ cur' = "loop"
    /\ UNCHANGED <<iterVars, readerVars, ready, exc, chunks, consumerVars, ghostVars>>

\* a normal end that also clears the stored error
F_Finish_clears ==
    /\ cur = "F" /\ fpc \in {"exit", "exit_ret"}
    /\ exc = NoError
    /\ _done' = TRUE
    /\ _error' = NoError
    /\ fpc' = "finished"
    /\ cur' = "loop"
    /\ UNCHANGED <<iterVars, _queue, _schema, ready, exc, chunks, consumerVars,
                   ghostVars>>

\* normal end of the try body: reader.mark_done(); the task ends
F_Finish ==
    /\ cur = "F" /\ fpc \in {"exit", "exit_ret"}
    /\ exc = NoError
    /\ _done' = TRUE
    /\ fpc' = "finished"
    /\ cur' = "loop"
    /\ UNCHANGED <<iterVars, _queue, _error, _schema, ready, exc, chunks, consumerVars,
                   ghostVars>>

\* `except Exception as e`: reader._error = e; reader.mark_done(); raise
F_Except ==
    /\ cur = "F" /\ fpc \in {"exit", "exit_ret"}
    /\ exc # NoError
    /\ _error' = exc
    /\ _done' = TRUE
    /\ fpc' = "failed"
    /\ cur' = "loop"
    /\ UNCHANGED <<iterVars, _queue, _schema, ready, exc, chunks, consumerVars, ghostVars>>

\* ----------------------------------------------------------- consumer
\* the iteration ends: cleanly, or raising `e`
Terminate(e) ==
    /\ cpc' = IF e = NoError THEN "finished" ELSE "raised"
    /\ surfaced' = e
    /\ yielded' = yielded
    /\ cur' = "loop"

\* a loop body that drops an exception item and goes on
Dequeued_skips ==
    LET item == Head(_queue) IN
    /\ _queue' = Tail(_queue)
    /\ IF IsException(item)
          THEN /\ cpc' = "test"
               /\ UNCHANGED <<yielded, surfaced, cur>>
          ELSE /\ yielded' = Append(yielded, item)
               /\ cpc' = "body"
               /\ UNCHANGED <<surfaced, cur>>

\* the body of `while` after `batch = await self._queue.get()` returned
\* `item`, which is the head of the queue
Dequeued ==
    LET item == Head(_queue) IN
    /\ _queue' = Tail(_queue)
    /\ IF IsException(item)
          THEN Terminate(finally_raises(_error, item))
          ELSE /\ yielded' = Append(yielded, item)
               /\ cpc' = "body"
               /\ UNCHANGED <<surfaced, cur>>

\* the consumer awaits something else (asyncio.sleep) before iterating or
\* between two batches
C_Pause ==
    /\ cur = "C" /\ cpc \in {"main", "body"}
    /\ cpc' = IF cpc = "main" THEN "main_sleep" ELSE "body_sleep"
    /\ cur' = "loop"
    /\ UNCHANGED <<iterVars, readerVars, ready, feederVars, yielded, surfaced,
                   schemaResults, ghostVars>>

\* `await reader.schema` (the caller catches what it raises)
C_Schema ==
    /\ cur = "C" /\ cpc \in {"main", "main_ret", "body", "body_ret"}
    /\ Len(schemaResults) < MaxAwaits
    /\ schemaResults' = Append(schemaResults, schema_accessor(_schema))
    /\ UNCHANGED <<iterVars, readerVars, ready, cur, feederVars, cpc, yielded, surfaced,
                   ghostVars>>

\* `async for batch in reader` starts, or asks for the next batch
C_Next ==
    /\ cur = "C" /\ cpc \in {"main", "main_ret", "body", "body_ret"}
    /\ cpc' = "test"
    /\ iters' = IF cpc \in {"main", "main_ret"} THEN iters + 1 ELSE iters
    /\ UNCHANGED <<abandonChunks, readerVars, ready, cur, feederVars, yielded, surfaced,
                   schemaResults, ghostVars>>

\* the loop condition is false: leave the loop through `finally`
C_LoopExit ==
    /\ cur = "C" /\ cpc = "test"
    /\ ~loop_condition(_done, _queue)
    /\ Terminate(finally_raises(_error, NoError))
    /\ UNCHANGED <<iterVars, readerVars, ready, feederVars, schemaResults, ghostVars>>

\* the loop condition is true and the queue has an item: get() returns it
\* without suspending
C_GetNow ==
    /\ cur = "C" /\ cpc = "test"
    /\ loop_condition(_done, _queue)
    /\ _queue # <<>>
    /\ Dequeued
    /\ UNCHANGED <<iterVars, _error, _schema, _done, ready, feederVars, schemaResults,
                   ghostVars>>

\* the loop condition is true and the queue is empty: get() suspends
C_GetSuspend ==
    /\ cur = "C" /\ cpc = "test"
    /\ loop_condition(_done, _queue)
    /\ _queue = <<>>
    /\ cpc' = "getting"
    /\ cur' = "loop"
    /\ UNCHANGED <<iterVars, readerVars, ready, feederVars, yielded, surfaced,
                   schemaResults, ghostVars>>

\* get() resumes after a put woke it
C_GetResume ==
    /\ cur = "C" /\ cpc = "get_ret"
    /\ Dequeued
    /\ UNCHANGED <<iterVars, _error, _schema, _done, ready, feederVars, schemaResults,
                   ghostVars>>

\* the consumer leaves `async for` early (break); the generator stays
\* suspended at its `yield` and nothing is signalled to the feeder
C_Abandon ==
    /\ cur = "C" /\ cpc \in {"body", "body_ret"}
    /\ cpc' = "abandoned"
    /\ abandonChunks' = chunks
    /\ cur' = "loop"
    /\ UNCHANGED <<readerVars, ready, feederVars, yielded, surfaced,
                   schemaResults, ghostVars, iters>>

\* the abandoned generator is closed (aclose): GeneratorExit is thrown at
\* the `yield` and the `finally` clause runs
C_Close ==
    /\ cur = "loop" /\ cpc = "abandoned"
    /\ surfaced' = finally_raises(_error, NoError)
    /\ cpc' = IF surfaced' = NoError THEN "closed" ELSE "close_raised"
    /\ UNCHANGED <<readerVars, ready, cur, feederVars, yielded, schemaResults,
                   ghostVars, iterVars>>

\* after its iteration terminated the consumer starts `async for` on the
\* same reader again: __aiter__ builds a fresh generator
C_Restart ==
    /\ cur = "loop" /\ cpc \in {"finished", "raised"}
    /\ iters < MaxIters
    /\ iters' = iters + 1
    /\ cpc' = "test"
    /\ cur' = "C"
    /\ UNCHANGED <<readerVars, ready, feederVars, yielded, surfaced,
                   schemaResults, ghostVars, abandonChunks>>

\* ------------------------------------------------------ specification
Next ==
    \/ fetch_stream
    \/ RunPut \/ RunStepF \/ RunStepC \/ IOReady \/ Timer
    \/ F_Connect \/ F_ConnectOK \/ F_ConnectFail
    \/ F_ReadSuspend \/ F_ReadChunk \/ F_ReadEOF \/ F_ReadRaise
    \/ F_Callback \/ F_CallbackBad \/ F_FeedReturn \/ F_FeedRaise
    \/ F_ExitSuspend \/ F_Finish \/ F_Except
    \/ C_Pause \/ C_Schema \/ C_Next
    \/ C_LoopExit \/ C_GetNow \/ C_GetSuspend \/ C_GetResume
    \/ C_Abandon \/ C_Close \/ C_Restart

Spec == Init /\ [][Next]_vars

\* the loop keeps running handles, the network and the timers keep
\* delivering, and a running task keeps going
FairSpec == Spec /\ WF_vars(Next)

TypeOK ==
    /\ _done \in BOOLEAN
    /\ cur \in {"loop", "F", "C"}
    /\ Len(produced) <= MaxUnits
    /\ Len(errors) <= MaxErrors
    /\ Len(yielded) <= Len(produced)
    /\ iters \in 0..MaxIters
    /\ abandonChunks <= chunks

\* ------------------------------- thread-executor variant (test_vesa.py)
\* AsyncArrowClient.fetch_stream runs prototype.process_stream on a worker
\* thread and awaits it before it returns the reader.  `fpc` is the position
\* of the worker thread, which runs beside the loop thread; `cpc` the
\* position of the task that calls fetch_stream and then iterates.

\* `while not self._queue.empty()`
vesa_loop_condition(q) == q # <<>>

\* AsyncArrowClient() has built the reader; main is inside fetch_stream
VesaInit ==
    /\ _queue = <<>>
    /\ _error = NoError
    /\ _schema = Pending
    /\ _done = FALSE
    /\ ready = <<>>
    /\ cur = "C"
    /\ fpc = "w_idle"
    /\ exc = NoError
    /\ chunks = 0
    /\ cpc = "v_fetch"
    /\ yielded = <<>>
    /\ surfaced = NoError
    /\ schemaResults = <<>>
    /\ produced = <<>>
    /\ errors = <<>>
    /\ beforeFail = <<>>
    /\ iters = 0
    /\ abandonChunks = 0

\* a fetch_stream that starts the worker and returns the reader at once
V_Submit_detached ==
    /\ cur = "C" /\ cpc = "v_fetch"
    /\ fpc' = "w_run"
    /\ cpc' = "v_main"
    /\ UNCHANGED <<readerVars, ready, cur, exc, chunks, yielded, surfaced,
                   schemaResults, ghostVars, iterVars>>

\* `await loop.run_in_executor(executor, lambda: process_stream(...))`: the
\* worker thread starts and the calling task suspends on its future
V_Submit ==
    /\ cur = "C" /\ cpc = "v_fetch"
    /\ fpc' = "w_run"
    /\ cpc' = "v_await"
    /\ cur' = "loop"
    /\ UNCHANGED <<readerVars, ready, exc, chunks, yielded, surfaced,
                   schemaResults, ghostVars, iterVars>>

\* on the worker thread process_stream calls back with a handle that converts
W_Callback ==
    /\ fpc = "w_run"
    /\ Len(produced) < MaxUnits
    /\ handle_batch_ok
    /\ UNCHANGED <<cur, feederVars, consumerVars, iterVars>>

\* on the worker thread process_stream calls back with a handle that does not
W_CallbackBad ==
    /\ fpc = "w_run"
    /\ Len(errors) < MaxErrors
    /\ handle_batch_raises
    /\ UNCHANGED <<cur, feederVars, consumerVars, iterVars>>

\* process_stream returns: the executor future completes and its done
\* callback schedules, behind the puts, the wake-up of the awaiting task
W_Return ==
    /\ fpc = "w_run"
    /\ fpc' = "w_ok"
    /\ IF cpc = "v_await"
          THEN /\ cpc' = "v_ret"
               /\ ready' = call_soon_threadsafe(ready, StepC)
          ELSE UNCHANGED <<cpc, ready>>
    /\ UNCHANGED <<readerVars, cur, exc, chunks, yielded, surfaced,
                   schemaResults, ghostVars, iterVars>>

\* process_stream raises on the worker thread
W_Raise ==
    /\ fpc = "w_run"
    /\ Len(errors) < MaxErrors
    /\ exc' = TransferError(Len(errors) + 1)
    /\ Raise(exc')
    /\ fpc' = "w_raised"
    /\ IF cpc = "v_await"
          THEN /\ cpc' = "v_ret"
               /\ ready' = call_soon_threadsafe(ready, StepC)
          ELSE UNCHANGED <<cpc, ready>>
    /\ UNCHANGED <<readerVars, cur, chunks, yielded, surfaced, schemaResults,
                   produced, iterVars>>

\* the await returned normally: fetch_stream returns the reader
V_Return ==
    /\ cur = "C" /\ cpc = "v_ret" /\ fpc = "w_ok"
    /\ cpc' = "v_main"
    /\ UNCHANGED <<readerVars, ready, cur, feederVars, yielded, surfaced,
                   schemaResults, ghostVars, iterVars>>

\* the await raised: fetch_stream raises RuntimeError, no reader is returned
V_FetchRaise ==
    /\ cur = "C" /\ cpc = "v_ret" /\ fpc = "w_raised"
    /\ cpc' = "v_failed"
    /\ cur' = "loop"
    /\ UNCHANGED <<readerVars, ready, feederVars, yielded, surfaced,
                   schemaResults, ghostVars, iterVars>>

\* `async for batch in reader` starts, or asks for the next batch
V_Next ==
    /\ cur = "C" /\ cpc \in {"v_main", "v_body"}
    /\ cpc' = "v_test"
    /\ UNCHANGED <<readerVars, ready, cur, feederVars, yielded, surfaced,
                   schemaResults, ghostVars, iterVars>>

\* the queue is empty: leave the loop through `finally`
V_LoopExit ==
    /\ cur = "C" /\ cpc = "v_test"
    /\ ~vesa_loop_condition(_queue)
    /\ Terminate(finally_raises(_error, NoError))
    /\ UNCHANGED <<readerVars, ready, feederVars, schemaResults, ghostVars,
                   iterVars>>

\* the queue is not empty: `await self._queue.get()`, then the loop body
V_Get ==
    /\ cur = "C" /\ cpc = "v_test"
    /\ vesa_loop_condition(_queue)
    /\ IF _queue = <<>>
          THEN /\ cpc' = "getting"
               /\ cur' = "loop"
               /\ UNCHANGED <<_queue, yielded, surfaced>>
          ELSE LET item == Head(_queue) IN
               /\ _queue' = Tail(_queue)
               /\ IF IsException(item)
                     THEN Terminate(finally_raises(_error, item))
                     ELSE /\ yielded' = Append(yielded, item)
                          /\ cpc' = "v_body"
                          /\ UNCHANGED <<surfaced, cur>>
    /\ UNCHANGED <<_error, _schema, _done, ready, feederVars, schemaResults,
                   ghostVars, iterVars>>

VesaNext ==
    \/ V_Submit \/ W_Callback \/ W_CallbackBad \/ W_Return \/ W_Raise
    \/ RunPut \/ RunStepC
    \/ V_Return \/ V_FetchRaise \/ V_Next \/ V_LoopExit \/ V_Get

\* the worker thread, the loop and the running task all keep going
VesaSpec == VesaInit /\ [][VesaNext]_vars /\ WF_vars(VesaNext)

\* ------------------------------------------------------------- claims
Terminated == cpc \in {"finished", "raised"}
GaveUp == cpc \in {"abandoned", "closed", "close_raised"}
BatchQueued == \E i \in 1..Len(_queue) : _queue[i].kind = "batch"

\* C1: on an error-free stream the iteration, once terminated, has ended
\* without raising and has yielded every batch the callback handed over
C1_AllUnitsDelivered ==
    (Terminated /\ errors = <<>>) =>
        (cpc = "finished" /\ yielded = produced)

\* C2: after clean EOF and mark_done, the consumer's iteration eventually
\* terminates, also when it is suspended in get() on an empty queue
C2_TerminatesAfterEOF ==
    (fpc = "finished") ~> (Terminated \/ GaveUp \/ iters >= 2)

\* C3: the exception the iteration raises is the first exception raised
\* anywhere in the pipeline; a later one never replaces it
C3_FirstErrorWins == (cpc = "raised") => (surfaced = errors[1])

\* C4: when the iteration raises, every batch handed over before the failure
\* has been yielded, in order
C4_NotRetroactive == (cpc = "raised") => IsPrefix(beforeFail, yielded)

\* C5: after a read or a feed raised inside the feeder, the consumer's
\* iteration eventually fails, also when it is suspended in get() on an
\* empty queue
C5_FeederFailureSurfaces ==
    (fpc = "failed") ~> (cpc = "raised" \/ GaveUp \/ iters >= 2)

\* C6: the batches yielded so far are a prefix of the batches the callback
\* converted, in the same order
C6_YieldedPrefix == IsPrefix(yielded, produced)

C6_Witness == Len(yielded) >= 2 /\ Len(produced) > Len(yielded)

\* C7: whenever a batch has been yielded or sits in the queue, the schema
\* future is resolved
C7_SchemaBeforeUnit == (yielded # <<>> \/ BatchQueued) => (_schema # Pending)

C7_Witness == yielded # <<>> /\ BatchQueued /\ _schema # Pending

\* C8: the schema future is resolved exactly by the first converted batch,
\* and once resolved its value never changes
C8_SchemaWrittenOnce ==
    /\ [](_schema = IF produced = <<>> THEN Pending ELSE schemaOf(produced[1]))
    /\ [][_schema # Pending => _schema' = _schema]_vars

C8_Witness ==
    /\ Len(produced) >= 2
    /\ cpc \in {"main", "main_sleep", "main_ret"}
    /\ iters = 0
    /\ _schema = schemaOf(produced[1])

\* C9: every await of the schema accessor that has completed returned the
\* published schema (an await never fails)
C9_SchemaAwaitsAgree ==
    \A i \in 1..Len(schemaResults) :
        _schema # Pending /\ schemaResults[i] = _schema

\* C10: on a stream that ended with clean EOF after zero batches, an await of
\* the schema accessor fails with NoDataError
C10_NoDataError ==
    (fpc = "finished" /\ produced = <<>>) =>
        \A i \in 1..Len(schemaResults) : schemaResults[i].kind = "NoDataError"

\* C11: a failed conversion inside the callback leaves the feeder inside
\* consume_bytes with no exception in flight, schedules exactly one put, of
\* the exception itself, converts no batch and stores the exception in _error
CallbackFailed == fpc = "feed" /\ fpc' = "feed" /\ errors' # errors

C11_CallbackErrorContained ==
    [][CallbackFailed =>
        LET e == errors'[Len(errors')] IN
        /\ cur' = "F" /\ exc' = NoError
        /\ ready' = Append(ready, PutHandle(e))
        /\ \A i \in 1..Len(ready) : ready[i] # PutHandle(e)
        /\ \A i \in 1..Len(_queue') : _queue'[i] # e
        /\ produced' = produced
        /\ _error' = e]_vars

C11_Witness ==
    /\ cur = "F" /\ fpc = "feed"
    /\ _error.kind = "DecodeError"
    /\ ready # <<>> /\ ready[Len(ready)] = PutHandle(_error)
    /\ produced # <<>>

\* C12: once the consumer has abandoned its iteration the feeder reads at
\* most one more chunk from the byte source
C12_FeederStopsAfterAbandon == GaveUp => (chunks <= abandonChunks + 1)

\* C13: fetch_stream hands the reader to its caller before the feeder task
\* has taken a step: the reader is not done, has no error, an empty queue and
\* an unresolved schema, and the feeder's first step is only queued
C13_FetchReturnsFirst ==
    /\ [](cpc = "fetch" => (fpc = "start" /\ chunks = 0))
    /\ [][(cpc = "fetch" /\ cpc' # "fetch") =>
            /\ ~_done' /\ _error' = NoError
            /\ _queue' = <<>> /\ _schema' = Pending
            /\ chunks' = 0 /\ fpc' = "start"
            /\ ready' = <<StepF>>]_vars

C13_Witness ==
    /\ cpc = "main" /\ cur = "C"
    /\ fpc = "start" /\ ready = <<StepF>>
    /\ ~_done /\ _queue = <<>> /\ _schema = Pending

\* C14: the completion state never goes back: not to Active once it is
\* Completed or Failed, and not away from Failed
CompletionState ==
    IF _error # NoError THEN "Failed"
    ELSE IF _done THEN "Completed" ELSE "Active"

C14_CompletionMonotonic ==
    [][/\ (CompletionState # "Active" => CompletionState' # "Active")
       /\ (CompletionState = "Failed" => CompletionState' = "Failed")]_vars

C14_Witness == _error # NoError /\ _done /\ fpc = "finished"

\* C15: the step that dequeues an exception item ends the iteration by
\* raising, yields nothing, and the iteration that raised never yields again
MarkerDequeued ==
    _queue # <<>> /\ IsException(Head(_queue)) /\ _queue' = Tail(_queue)

C15_NothingAfterMarker ==
    [][/\ MarkerDequeued =>
            (cpc' = "raised" /\ surfaced' # NoError /\ yielded' = yielded)
       /\ (cpc = "raised") =>
            (yielded' = yielded /\ (cpc' = "raised" \/ iters' = iters + 1))]_vars

C15_Witness == cpc = "raised" /\ iters = 1 /\ BatchQueued

\* C16: a second iteration of the same reader yields no batch and never
\* suspends in get()
C16_SinglePass == [][iters >= 2 => (yielded' = yielded /\ cpc' # "getting")]_vars

\* C18: an iteration that ends, in whatever way, while an error is stored on
\* the reader ends by raising
Ended == {"finished", "raised", "closed", "close_raised"}

C18_FailureNeverClean ==
    [][(cpc \notin Ended /\ cpc' \in Ended /\ _error # NoError) =>
        (cpc' \in {"raised", "close_raised"} /\ surfaced' # NoError)]_vars

C18_Witness == cpc = "close_raised" /\ surfaced = _error

\* C19: once _done is set the feeder task has ended, the callback is never
\* invoked again and no new put is scheduled: pending puts can only land
IsPut(handle) == handle.h = "put"
PendingPuts(rdy) == SelectSeq(rdy, IsPut)

C19_DoneAfterLastFeed ==
    /\ [](_done => fpc \in {"finished", "failed"})
    /\ [][_done =>
            /\ produced' = produced /\ errors' = errors
            /\ \/ PendingPuts(ready') = PendingPuts(ready)
               \/ /\ PendingPuts(ready) # <<>>
                  /\ PendingPuts(ready') = Tail(PendingPuts(ready))]_vars

C19_Witness == _done /\ PendingPuts(ready) # <<>>

\* C17: in the thread-executor variant, when fetch_stream returns the reader
\* every scheduled item is already on the queue; the iteration never
\* suspends in get(), terminates, and has then yielded, in production order,
\* the batches converted before the first failed conversion (all converted
\* batches when no conversion failed)
C17_VesaDelivers ==
    /\ [](cpc = "v_main" =>
            /\ PendingPuts(ready) = <<>>
            /\ Len(_queue) = Len(produced) + Len(errors))
    /\ [](cpc # "getting")
    /\ []((Terminated /\ fpc = "w_ok") =>
            yielded = IF errors = <<>> THEN produced ELSE beforeFail)
    /\ (cpc = "v_main") ~> Terminated

C17_Witness ==
    /\ cpc = "raised" /\ fpc = "w_ok"
    /\ Len(yielded) >= 2
    /\ Len(produced) > Len(yielded)

\* C17 as stated: the iteration yields every converted batch
C17_VesaYieldsAll == (Terminated /\ fpc = "w_ok") => (yielded = produced)

====
